---- MODULE Spec2Model ----
(***************************************************************************)
(* Model of src/prod.py: the streaming JSON reconstruction pipeline behind *)
(* the /detect and /abstract endpoints.                                    *)
(*                                                                         *)
(* Text (a Python str) is a sequence of one-character strings.  A decoded  *)
(* JSON value is carried as its json.dumps text (the canonical text with   *)
(* the ", " and ": " separators), so a result list is a sequence of such   *)
(* texts.  The decoder covers the JSON that can be written with the        *)
(* characters  { } [ ] , : " space, the digits 1-3 and letters inside      *)
(* string literals (no escapes, no literals true/false/null, no            *)
(* fractions or exponents).                                                *)
(***************************************************************************)
EXTENDS Integers, Sequences, FiniteSets, TLC

(***************************************************************************)
(* Bounds of the model.                                                    *)
(***************************************************************************)
MaxChunks == 2

MaxTextLen == 6

MaxSize == 3

(***************************************************************************)
(* Program constants.                                                      *)
(***************************************************************************)
ChunkSize == 100

BadRequest == 400

Ok == 200

(***************************************************************************)
(* Characters.                                                             *)
(***************************************************************************)
Whitespace == {" "}

Digits == {"1", "2", "3"}

Quote == "\""

KeyResults == <<Quote, "r", "e", "s", "u", "l", "t", "s", Quote>>

KeyA == <<Quote, "a", Quote>>

(***************************************************************************)
(* Python str helpers.                                                     *)
(***************************************************************************)
Contains(s, c) == \E i \in 1..Len(s) : s[i] = c

\* str.rfind(c): 0-based index of the last occurrence, -1 when absent
RFind(s, c) ==
    IF Contains(s, c)
    THEN (CHOOSE i \in 1..Len(s) : s[i] = c /\ \A j \in (i+1)..Len(s) : s[j] # c) - 1
    ELSE -1

\* s[:n] for n >= -1 (n = -1 drops the last character, as Python does)
SliceTo(s, n) ==
    IF n >= 0 THEN SubSeq(s, 1, IF n < Len(s) THEN n ELSE Len(s))
    ELSE SubSeq(s, 1, Len(s) + n)

RECURSIVE JoinRange(_, _, _, _)
\* parts[lo] sep parts[lo+1] sep ... parts[hi] (computed by halving the range)
JoinRange(parts, sep, lo, hi) ==
    IF lo > hi THEN <<>>
    ELSE IF lo = hi THEN parts[lo]
    ELSE JoinRange(parts, sep, lo, (lo + hi) \div 2) \o sep
         \o JoinRange(parts, sep, (lo + hi) \div 2 + 1, hi)

\* sep.join(parts)
Join(parts, sep) == JoinRange(parts, sep, 1, Len(parts))

(***************************************************************************)
(* json.loads, as a recursive-descent decoder.  A decoded value is the     *)
(* record [ok, pos, kind, canon, elems, members]: pos is the index after   *)
(* the value, canon its json.dumps text, elems the canon of each element   *)
(* of an array, members the (key, value) entries of an object in dict      *)
(* order (a repeated key keeps its first position and its last value).     *)
(***************************************************************************)
Fail == [ok |-> FALSE, pos |-> 0, kind |-> "none", canon |-> <<>>,
         elems |-> <<>>, members |-> <<>>]

RECURSIVE SkipWs(_, _)
SkipWs(s, i) ==
    IF i <= Len(s) /\ s[i] \in Whitespace THEN SkipWs(s, i + 1) ELSE i

RECURSIVE ScanDigits(_, _)
ScanDigits(s, i) ==
    IF i <= Len(s) /\ s[i] \in Digits THEN ScanDigits(s, i + 1) ELSE i

RECURSIVE ScanQuote(_, _)
\* index of the closing quote at or after i, 0 when the string never ends
ScanQuote(s, i) ==
    IF i > Len(s) THEN 0
    ELSE IF s[i] = Quote THEN i
    ELSE ScanQuote(s, i + 1)

ParseString(s, i) ==
    LET j == ScanQuote(s, i + 1) IN
    IF j = 0 THEN Fail
    ELSE [ok |-> TRUE, pos |-> j + 1, kind |-> "str", canon |-> SubSeq(s, i, j),
          elems |-> <<>>, members |-> <<>>]

ParseNumber(s, i) ==
    LET j == ScanDigits(s, i) IN
    [ok |-> TRUE, pos |-> j, kind |-> "num", canon |-> SubSeq(s, i, j - 1),
     elems |-> <<>>, members |-> <<>>]

ArrayCanon(elems) == <<"[">> \o Join(elems, <<",", " ">>) \o <<"]">>

MemberCanon(members) ==
    [k \in 1..Len(members) |-> members[k].key \o <<":", " ">> \o members[k].canon]

ObjectCanon(members) == <<"{">> \o Join(MemberCanon(members), <<",", " ">>) \o <<"}">>

\* the keys of a dict in insertion order
KeysOf(members) == [k \in 1..Len(members) |-> members[k].key]

HasKey(members, key) == \E k \in 1..Len(members) : members[k].key = key

\* dict[key] = value
PutMember(members, m) ==
    IF HasKey(members, m.key)
    THEN [k \in 1..Len(members) |-> IF members[k].key = m.key THEN m ELSE members[k]]
    ELSE Append(members, m)

\* dict[key]
GetMember(members, key) ==
    members[CHOOSE k \in 1..Len(members) : members[k].key = key]

RECURSIVE ParseValue(_, _)
RECURSIVE ParseElems(_, _, _)
RECURSIVE ParseMembers(_, _, _)

\* the elements of an array from index i (at the first character of an element)
ParseElems(s, i, acc) ==
    LET v == ParseValue(s, i) IN
    IF ~v.ok THEN Fail
    ELSE LET j == SkipWs(s, v.pos)
             acc2 == Append(acc, v.canon) IN
         IF j > Len(s) THEN Fail
         ELSE IF s[j] = "]"
         THEN [ok |-> TRUE, pos |-> j + 1, kind |-> "arr", canon |-> ArrayCanon(acc2),
               elems |-> acc2, members |-> <<>>]
         ELSE IF s[j] = "," THEN ParseElems(s, SkipWs(s, j + 1), acc2)
         ELSE Fail

\* the members of an object from index i (at the first character of a key)
ParseMembers(s, i, acc) ==
    IF i > Len(s) \/ s[i] # Quote THEN Fail
    ELSE LET k == ParseString(s, i) IN
         IF ~k.ok THEN Fail
         ELSE LET c == SkipWs(s, k.pos) IN
              IF c > Len(s) \/ s[c] # ":" THEN Fail
              ELSE LET v == ParseValue(s, SkipWs(s, c + 1)) IN
                   IF ~v.ok THEN Fail
                   ELSE LET j == SkipWs(s, v.pos)
                            acc2 == PutMember(acc, [key |-> k.canon, kind |-> v.kind,
                                                    canon |-> v.canon, elems |-> v.elems,
                                                    keys |-> KeysOf(v.members)]) IN
                        IF j > Len(s) THEN Fail
                        ELSE IF s[j] = "}"
                        THEN [ok |-> TRUE, pos |-> j + 1, kind |-> "obj",
                              canon |-> ObjectCanon(acc2), elems |-> <<>>, members |-> acc2]
                        ELSE IF s[j] = "," THEN ParseMembers(s, SkipWs(s, j + 1), acc2)
                        ELSE Fail

ParseValue(s, i) ==
    IF i > Len(s) THEN Fail
    ELSE IF s[i] = Quote THEN ParseString(s, i)
    ELSE IF s[i] \in Digits THEN ParseNumber(s, i)
    ELSE IF s[i] = "["
    THEN LET j == SkipWs(s, i + 1) IN
         IF j <= Len(s) /\ s[j] = "]"
         THEN [ok |-> TRUE, pos |-> j + 1, kind |-> "arr", canon |-> ArrayCanon(<<>>),
               elems |-> <<>>, members |-> <<>>]
         ELSE ParseElems(s, j, <<>>)
    ELSE IF s[i] = "{"
    THEN LET j == SkipWs(s, i + 1) IN
         IF j <= Len(s) /\ s[j] = "}"
         THEN [ok |-> TRUE, pos |-> j + 1, kind |-> "obj", canon |-> ObjectCanon(<<>>),
               elems |-> <<>>, members |-> <<>>]
         ELSE ParseMembers(s, j, <<>>)
    ELSE Fail

\* json.loads(s): ok = FALSE stands for json.JSONDecodeError
Loads(s) ==
    LET v == ParseValue(s, SkipWs(s, 1)) IN
    IF v.ok /\ SkipWs(s, v.pos) = Len(s) + 1 THEN v ELSE Fail

(***************************************************************************)
(* split_into_chunks.                                                      *)
(***************************************************************************)
\* the words of two adjacent ranges: a word that runs across the border
\* (glue) is one word
MergeWords(left, right, glue) ==
    IF glue /\ left # <<>> /\ right # <<>>
    THEN SubSeq(left, 1, Len(left) - 1)
         \o <<left[Len(left)] \o right[1]>>
         \o Tail(right)
    ELSE left \o right

RECURSIVE SplitWords(_, _, _)
\* str.split() on s[lo..hi]: the maximal runs of non-whitespace characters,
\* in order (computed by halving the range)
SplitWords(s, lo, hi) ==
    IF lo > hi THEN <<>>
    ELSE IF lo = hi THEN (IF s[lo] \in Whitespace THEN <<>> ELSE << <<s[lo]>> >>)
    ELSE MergeWords(SplitWords(s, lo, (lo + hi) \div 2),
                    SplitWords(s, (lo + hi) \div 2 + 1, hi),
                    s[(lo + hi) \div 2] \notin Whitespace
                    /\ s[(lo + hi) \div 2 + 1] \notin Whitespace)

Min(a, b) == IF a < b THEN a ELSE b

\* ChunksOf with slices one word too long
ChunksOfOverlap(words, chunk_size) ==
    [c \in 1..((Len(words) + chunk_size - 1) \div chunk_size) |->
        Join(SubSeq(words, (c - 1) * chunk_size + 1,
                    Min(c * chunk_size + 1, Len(words))), <<" ">>)]

\* words[i:i + chunk_size] joined by single spaces, for i = 0, chunk_size, ...
ChunksOf(words, chunk_size) ==
    [c \in 1..((Len(words) + chunk_size - 1) \div chunk_size) |->
        Join(SubSeq(words, (c - 1) * chunk_size + 1,
                    Min(c * chunk_size, Len(words))), <<" ">>)]

split_into_chunks(input_text, chunk_size) ==
    ChunksOf(SplitWords(input_text, 1, Len(input_text)), chunk_size)

(***************************************************************************)
(* Inputs: request bodies and the texts the inference engine streams.      *)
(***************************************************************************)
\* n one-letter words separated by single spaces
Words(n) == [i \in 1..(2 * n - 1) |-> IF i % 2 = 1 THEN "w" ELSE " "]

Messages ==
    {<<>>, <<" ">>, <<"w">>, <<" ", "w", " ", " ", "w">>}
    \cup {Words((c - 1) * ChunkSize + 1) : c \in 2..MaxChunks}

\* request.get_json(): the "message" key may be absent
Payloads ==
    {[present |-> FALSE, message |-> <<>>]}
    \cup {[present |-> TRUE, message |-> m] : m \in Messages}

ResultsOpen == <<"{">> \o KeyResults \o <<":", "[">>

\* the message content of the record that carries done = True
DoneContents == {<<>>, <<"]", "}">>}

Responses ==
    { ResultsOpen \o <<"{">> \o KeyA \o <<":", "1", "}", ",", "2", "]", "}">>,
      ResultsOpen \o <<"[", "1", "]", "]", "}">>,
      ResultsOpen \o <<"3", "]", "}">>,
      ResultsOpen \o <<Quote, "]", Quote, "]", " ", "}">>,
      <<"{">> \o KeyA \o <<":", "[", "1", "]", "}">>,
      <<"{">> \o KeyResults \o <<":", "1", ",">> \o KeyA \o <<":", "[", "2", "]", "}">>,
      <<"1", "2">> }

(***************************************************************************)
(* The body of get_response_stream for one record of the delta stream.     *)
(***************************************************************************)
\* Repair with the bracket searched in the delta instead of the prefix
RepairLocal(temp_prefix, content) ==
    IF Contains(content, "]")
    THEN SliceTo(temp_prefix, RFind(content, "]")) \o <<"]", "}">>
    ELSE SliceTo(temp_prefix, RFind(content, "}")) \o <<"}", "]", "}">>

\* Repair with the slice ending one character later
RepairOffByOne(temp_prefix, content) ==
    IF Contains(content, "]")
    THEN SliceTo(temp_prefix, RFind(temp_prefix, "]") + 1) \o <<"]", "}">>
    ELSE SliceTo(temp_prefix, RFind(temp_prefix, "}") + 1) \o <<"}", "]", "}">>

\* line 101: the text handed to json.loads for a delta holding "]" or "}"
Repair(temp_prefix, content) ==
    IF Contains(content, "]")
    THEN SliceTo(temp_prefix, RFind(temp_prefix, "]")) \o <<"]", "}">>
    ELSE SliceTo(temp_prefix, RFind(temp_prefix, "}")) \o <<"}", "]", "}">>

\* SnapshotLine without the assignment of line 104
SnapshotLineUnmerged(parsed, merged) == ObjectCanon(parsed.members)

\* line 104 and the json.dumps of line 108 (without the trailing newline)
SnapshotLine(parsed, merged) ==
    ObjectCanon(PutMember(parsed.members,
        [key |-> KeyResults, kind |-> "arr", canon |-> ArrayCanon(merged),
         elems |-> merged, keys |-> <<>>]))

\* HandleDelta with the yield moved ahead of the decoding: the repaired text
\* itself is sent out when it does not decode
HandleDeltaYieldFirst(buffer, last_parsed_content, results, content) ==
    IF ~(Contains(content, "]") \/ Contains(content, "}"))
    THEN [buffer |-> buffer \o content, last |-> last_parsed_content,
          outcome |-> "plain", json_str |-> <<>>,
          part |-> <<>>, snap |-> <<>>, line |-> <<>>]
    ELSE [buffer |-> buffer,
          last |-> Repair(buffer \o content, content),
          outcome |-> "emit", json_str |-> Repair(buffer \o content, content),
          part |-> <<>>, snap |-> results,
          line |-> Repair(buffer \o content, content)]

\* HandleDelta with last_parsed_content cleared by a delta that holds
\* neither "]" nor "}"
HandleDeltaPlainReset(buffer, last_parsed_content, results, content) ==
    LET temp_prefix == buffer \o content
        json_str == Repair(temp_prefix, content)
        parsed == Loads(json_str)
    IN IF ~(Contains(content, "]") \/ Contains(content, "}"))
       THEN [buffer |-> temp_prefix, last |-> <<>>,
             outcome |-> "plain", json_str |-> <<>>,
             part |-> <<>>, snap |-> <<>>, line |-> <<>>]
       ELSE IF ~parsed.ok
       THEN [buffer |-> buffer, last |-> json_str,
             outcome |-> "skip", json_str |-> json_str,
             part |-> <<>>, snap |-> <<>>, line |-> <<>>]
       ELSE IF ~HasKey(parsed.members, KeyResults)
               \/ GetMember(parsed.members, KeyResults).kind # "arr"
       THEN [buffer |-> buffer, last |-> json_str,
             outcome |-> "raise", json_str |-> json_str,
             part |-> <<>>, snap |-> <<>>, line |-> <<>>]
       ELSE [buffer |-> buffer, last |-> json_str,
             outcome |-> "emit", json_str |-> json_str,
             part |-> GetMember(parsed.members, KeyResults).elems,
             snap |-> results \o GetMember(parsed.members, KeyResults).elems,
             line |-> SnapshotLine(parsed,
                         results \o GetMember(parsed.members, KeyResults).elems)]

\* lines 97-114: one record with done = False, up to the point where control
\* leaves the generator.  outcome: "plain" (no "]" or "}", line 109 has run),
\* "emit" (suspended at the yield of line 108, line 109 not yet run), "skip"
\* (JSONDecodeError, continue), "raise" (KeyError or TypeError leaves the
\* generator)
HandleDelta(buffer, last_parsed_content, results, content) ==
    LET temp_prefix == buffer \o content
        json_str == Repair(temp_prefix, content)
        parsed == Loads(json_str)
    IN IF ~(Contains(content, "]") \/ Contains(content, "}"))
       THEN [buffer |-> temp_prefix, last |-> last_parsed_content,
             outcome |-> "plain", json_str |-> <<>>,
             part |-> <<>>, snap |-> <<>>, line |-> <<>>]
       ELSE IF ~parsed.ok
       THEN [buffer |-> buffer, last |-> json_str,
             outcome |-> "skip", json_str |-> json_str,
             part |-> <<>>, snap |-> <<>>, line |-> <<>>]
       ELSE IF ~HasKey(parsed.members, KeyResults)
               \/ GetMember(parsed.members, KeyResults).kind # "arr"
       THEN [buffer |-> buffer, last |-> json_str,
             outcome |-> "raise", json_str |-> json_str,
             part |-> <<>>, snap |-> <<>>, line |-> <<>>]
       ELSE LET part == GetMember(parsed.members, KeyResults).elems IN
            [buffer |-> buffer, last |-> json_str,
             outcome |-> "emit", json_str |-> json_str,
             part |-> part, snap |-> results \o part,
             line |-> SnapshotLine(parsed, results \o part)]

\* line 109 when the generator is resumed after the yield of line 108
ResumeDelta(buffer, content) == buffer \o content

\* what list.extend takes from a decoded value: the items of a list, the
\* characters of a string, the keys of a dict
Iterate(v) ==
    IF v.kind = "arr" THEN v.elems
    ELSE IF v.kind = "str"
    THEN [k \in 1..(Len(v.canon) - 2) |-> <<Quote, v.canon[k + 1], Quote>>]
    ELSE v.keys

\* Extend with the new items put in front
ExtendFront(results, items) == items \o results

\* list.extend
Extend(results, items) == results \o items

\* Finalize with the decoded list assigned instead of appended
FinalizeReplace(results, last_parsed_content) ==
    IF ~Loads(last_parsed_content).ok
    THEN [results |-> results, contribution |-> <<>>, raised |-> FALSE]
    ELSE IF ~HasKey(Loads(last_parsed_content).members, KeyResults)
            \/ GetMember(Loads(last_parsed_content).members, KeyResults).kind = "num"
    THEN [results |-> results, contribution |-> <<>>, raised |-> TRUE]
    ELSE [results |-> Iterate(GetMember(Loads(last_parsed_content).members, KeyResults)),
          contribution |-> Iterate(GetMember(Loads(last_parsed_content).members, KeyResults)),
          raised |-> FALSE]

\* Finalize without the except clause of line 93
FinalizeUncaught(results, last_parsed_content) ==
    IF ~Loads(last_parsed_content).ok
       \/ ~HasKey(Loads(last_parsed_content).members, KeyResults)
       \/ GetMember(Loads(last_parsed_content).members, KeyResults).kind = "num"
    THEN [results |-> results, contribution |-> <<>>, raised |-> TRUE]
    ELSE [results |-> Extend(results,
                        Iterate(GetMember(Loads(last_parsed_content).members, KeyResults))),
          contribution |-> Iterate(GetMember(Loads(last_parsed_content).members, KeyResults)),
          raised |-> FALSE]

\* lines 90-95: the record with done = True.  A missing key (KeyError) or
\* a number (TypeError) is raised; a list, string or dict is iterated
Finalize(results, last_parsed_content) ==
    LET parsed == Loads(last_parsed_content) IN
    IF ~parsed.ok
    THEN [results |-> results, contribution |-> <<>>, raised |-> FALSE]
    ELSE IF ~HasKey(parsed.members, KeyResults)
            \/ GetMember(parsed.members, KeyResults).kind = "num"
    THEN [results |-> results, contribution |-> <<>>, raised |-> TRUE]
    ELSE LET items == Iterate(GetMember(parsed.members, KeyResults)) IN
         [results |-> Extend(results, items), contribution |-> items,
          raised |-> FALSE]

\* IsEmpty with the check left out
IsEmptyNever(input_text) == FALSE

\* HandleDone with the done flag tested after the content was handled
HandleDoneLate(buffer, last_parsed_content, results, content) ==
    IF Contains(content, "]") \/ Contains(content, "}")
    THEN [buffer |-> buffer \o content,
          last |-> Repair(buffer \o content, content),
          final |-> Finalize(results, Repair(buffer \o content, content))]
    ELSE [buffer |-> buffer \o content, last |-> last_parsed_content,
          final |-> Finalize(results, last_parsed_content)]

\* lines 89-95 for a record with done = True and the given message content:
\* the break of line 95 comes before the content is read on line 97
HandleDone(buffer, last_parsed_content, results, content) ==
    [buffer |-> buffer, last |-> last_parsed_content,
     final |-> Finalize(results, last_parsed_content)]

\* `not input_text`
IsEmpty(input_text) == input_text = <<>>

\* data.get('message', '')
GetMessage(data) == IF data.present THEN data.message ELSE <<>>

(***************************************************************************)
(* State.                                                                  *)
(***************************************************************************)
VARIABLES
    pc,                  \* where the request is
    endpoint,            \* "detect" or "abstract"
    data,                \* the request body
    response,            \* status and error of the HTTP response
    chunking,            \* argument of get_response_stream
    prompt_chunks,       \* line 71-74
    done_chunks,         \* iterations of the loop of line 76 that have ended
    results,             \* line 75: the running total
    buffer,              \* line 77
    last_parsed_content, \* line 78
    text,                \* the whole text the open invocation streams
    rest,                \* the part of text not delivered yet
    step,                \* what the last record of the delta stream did
    calls,               \* history: the invocations of ollama.chat
    lastSnap,            \* history: result list of the last yielded line
    chunkSnap,           \* history: chunk part of the last line of this invocation
    contrib,             \* history: the list each ended chunk finalized
    arg,                 \* arguments of a function called on its own
    ret,                 \* what that call returned
    frames               \* the generators of requests served at the same time

vars == <<pc, endpoint, data, response, chunking, prompt_chunks, done_chunks,
          results, buffer, last_parsed_content, text, rest, step, calls,
          lastSnap, chunkSnap, contrib, arg, ret, frames>>

\* the variables of a request
requestVars == <<pc, endpoint, data, response, chunking, prompt_chunks,
                 done_chunks, results, buffer, last_parsed_content, text, rest,
                 step, calls, lastSnap, chunkSnap, contrib>>

\* the variables of a function called on its own
callVars == <<arg, ret, frames>>

NoStep == [kind |-> "none", content |-> <<>>, json_str |-> <<>>, line |-> <<>>]

NoSnap == [some |-> FALSE, results |-> <<>>]

NoResponse == [status |-> 0, error |-> ""]

\* no request has been received
NoRequest ==
    /\ pc = "idle"
    /\ endpoint = "none"
    /\ data = [present |-> FALSE, message |-> <<>>]
    /\ response = NoResponse
    /\ chunking = FALSE
    /\ prompt_chunks = <<>>
    /\ done_chunks = 0
    /\ results = <<>>
    /\ buffer = <<>>
    /\ last_parsed_content = <<>>
    /\ text = <<>>
    /\ rest = <<>>
    /\ step = NoStep
    /\ calls = <<>>
    /\ lastSnap = NoSnap
    /\ chunkSnap = NoSnap
    /\ contrib = <<>>

NoCall == [fn |-> "none"]

NoFrames == <<>>

Init ==
    /\ NoRequest
    /\ arg = NoCall
    /\ ret = NoCall
    /\ frames = NoFrames

streamVars == <<prompt_chunks, done_chunks, results, buffer, last_parsed_content,
                text, rest, step, calls, lastSnap, chunkSnap, contrib>>

\* lines 118-133 (use_chunking = TRUE) and 136-151 (use_chunking = FALSE)
Handle(name, use_chunking, body) ==
    /\ pc = "idle"
    /\ endpoint' = name
    /\ data' = body
    /\ chunking' = use_chunking
    /\ IF IsEmpty(GetMessage(body))
       THEN /\ response' = [status |-> BadRequest, error |-> "No message provided"]
            /\ pc' = "rejected"
       ELSE /\ response' = [status |-> Ok, error |-> ""]
            /\ pc' = "accepted"
    /\ UNCHANGED streamVars
    /\ UNCHANGED callVars

detect == \E body \in Payloads : Handle("detect", TRUE, body)

abstract == \E body \in Payloads : Handle("abstract", FALSE, body)

\* PromptChunks with the chunking flag ignored
PromptChunksAlways(use_chunking, user_message) ==
    split_into_chunks(user_message, ChunkSize)

\* lines 71-74
PromptChunks(use_chunking, user_message) ==
    IF use_chunking
    THEN split_into_chunks(user_message, ChunkSize)
    ELSE <<user_message>>

\* lines 69-75: the generator is started by the response being iterated
StartStream ==
    /\ pc = "accepted"
    /\ prompt_chunks' = PromptChunks(chunking, GetMessage(data))
    /\ results' = <<>>
    /\ pc' = "loop"
    /\ UNCHANGED <<endpoint, data, response, chunking, done_chunks, buffer,
                   last_parsed_content, text, rest, step, calls, lastSnap,
                   chunkSnap, contrib>>
    /\ UNCHANGED callVars

\* CanOpen without waiting for the open stream to end
CanOpenEarly == pc \in {"loop", "streaming"} /\ done_chunks < Len(prompt_chunks)

\* the loop of line 76 takes its next element
CanOpen == pc = "loop" /\ done_chunks < Len(prompt_chunks)

\* lines 76-88: ollama.chat is called for the next chunk
OpenInvocation ==
    /\ CanOpen
    /\ \E t \in Responses : text' = t /\ rest' = t
    /\ buffer' = <<>>
    /\ last_parsed_content' = <<>>
    /\ calls' = Append(calls, [prompt |-> prompt_chunks[done_chunks + 1],
                               state |-> "open"])
    /\ chunkSnap' = NoSnap
    /\ step' = NoStep
    /\ pc' = "streaming"
    /\ UNCHANGED <<endpoint, data, response, chunking, prompt_chunks, done_chunks,
                   results, lastSnap, contrib>>
    /\ UNCHANGED callVars

SetLast(s, field, val) == [s EXCEPT ![Len(s)] = [@ EXCEPT ![field] = val]]

\* lines 89, 97-114: a record with done = False arrives
Delta ==
    /\ pc = "streaming"
    /\ \E k \in 1..Len(rest) :
         \E h \in {HandleDelta(buffer, last_parsed_content, results, SubSeq(rest, 1, k))} :
            /\ rest' = SubSeq(rest, k + 1, Len(rest))
            /\ buffer' = h.buffer
            /\ last_parsed_content' = h.last
            /\ step' = [kind |-> h.outcome, content |-> SubSeq(rest, 1, k),
                        json_str |-> h.json_str, line |-> h.line]
            /\ lastSnap' = IF h.outcome = "emit"
                           THEN [some |-> TRUE, results |-> h.snap] ELSE lastSnap
            /\ chunkSnap' = IF h.outcome = "emit"
                            THEN [some |-> TRUE, results |-> h.part] ELSE chunkSnap
            /\ pc' = IF h.outcome = "raise" THEN "aborted"
                     ELSE IF h.outcome = "emit" THEN "yielded"
                     ELSE "streaming"
            /\ calls' = IF h.outcome = "raise"
                        THEN SetLast(calls, "state", "aborted") ELSE calls
    /\ UNCHANGED <<endpoint, data, response, chunking, prompt_chunks, done_chunks,
                   results, text, contrib>>
    /\ UNCHANGED callVars

\* line 109: the consumer asks for the next line and the generator goes on
\* after the yield of line 108
Resume ==
    /\ pc = "yielded"
    /\ buffer' = ResumeDelta(buffer, step.content)
    /\ step' = [NoStep EXCEPT !.kind = "resume", !.content = step.content]
    /\ pc' = "streaming"
    /\ UNCHANGED <<endpoint, data, response, chunking, prompt_chunks, done_chunks,
                   results, last_parsed_content, text, rest, calls, lastSnap,
                   chunkSnap, contrib>>
    /\ UNCHANGED callVars

\* line 108: the consumer closes the generator while it holds a line
Disconnect ==
    /\ pc = "yielded"
    /\ pc' = "disconnected"
    /\ calls' = SetLast(calls, "state", "abandoned")
    /\ step' = [NoStep EXCEPT !.kind = "close", !.content = step.content]
    /\ UNCHANGED <<endpoint, data, response, chunking, prompt_chunks, done_chunks,
                   results, buffer, last_parsed_content, text, rest, lastSnap,
                   chunkSnap, contrib>>
    /\ UNCHANGED callVars

\* lines 89-95: the record with done = True arrives
DoneRecord ==
    /\ pc = "streaming"
    /\ rest = <<>>
    /\ \E c \in DoneContents :
       \E h \in {HandleDone(buffer, last_parsed_content, results, c)} :
         /\ results' = h.final.results
         /\ buffer' = h.buffer
         /\ last_parsed_content' = h.last
         /\ step' = [NoStep EXCEPT !.kind = "done", !.content = c]
         /\ IF h.final.raised
            THEN /\ pc' = "aborted"
                 /\ calls' = SetLast(calls, "state", "aborted")
                 /\ UNCHANGED <<done_chunks, contrib>>
            ELSE /\ pc' = "loop"
                 /\ calls' = SetLast(calls, "state", "done")
                 /\ done_chunks' = done_chunks + 1
                 /\ contrib' = Append(contrib, h.final.contribution)
    /\ UNCHANGED <<endpoint, data, response, chunking, prompt_chunks,
                   text, rest, lastSnap, chunkSnap>>
    /\ UNCHANGED callVars

\* the loop of line 76 is exhausted: the generator returns
CloseStream ==
    /\ pc = "loop"
    /\ done_chunks = Len(prompt_chunks)
    /\ pc' = "closed"
    /\ UNCHANGED <<endpoint, data, response, chunking, prompt_chunks, done_chunks,
                   results, buffer, last_parsed_content, text, rest, step, calls,
                   lastSnap, chunkSnap, contrib>>
    /\ UNCHANGED callVars

Next ==
    \/ detect
    \/ abstract
    \/ StartStream
    \/ OpenInvocation
    \/ Delta
    \/ Resume
    \/ Disconnect
    \/ DoneRecord
    \/ CloseStream

Spec == Init /\ [][Next]_vars

(***************************************************************************)
(* split_into_chunks called on its own, on every short text and size.      *)
(***************************************************************************)
TextChars == {"a", "b", " "}

InputTexts == UNION {[1..n -> TextChars] : n \in 0..MaxTextLen}

InitChunker ==
    /\ NoRequest
    /\ \E t \in InputTexts, w \in 1..MaxSize :
         arg = [fn |-> "split_into_chunks", input_text |-> t, chunk_size |-> w]
    /\ ret = NoCall
    /\ frames = NoFrames

\* lines 62-65
CallSplit ==
    /\ arg.fn = "split_into_chunks"
    /\ ret = NoCall
    /\ ret' = [fn |-> "split_into_chunks",
               out |-> split_into_chunks(arg.input_text, arg.chunk_size)]
    /\ UNCHANGED <<arg, frames>>
    /\ UNCHANGED requestVars

NextChunker == CallSplit

SpecChunker == InitChunker /\ [][NextChunker]_vars

(***************************************************************************)
(* The prefix-repair parse called on its own: one accumulated text, a      *)
(* prefix of a response, divided into buffer and delta in two ways.        *)
(***************************************************************************)
\* lines 98-103 for a delta that passes the test of line 100
RepairParse(temp_buffer, content) ==
    [json_str |-> Repair(temp_buffer \o content, content),
     ok |-> Loads(Repair(temp_buffer \o content, content)).ok]

Structural(content) == Contains(content, "]") \/ Contains(content, "}")

AccumulatedTexts == UNION {{SubSeq(t, 1, n) : n \in 1..Len(t)} : t \in Responses}

\* the delta when the first n characters of t are the buffer
DeltaAfter(t, n) == SubSeq(t, n + 1, Len(t))

InitRepair ==
    /\ NoRequest
    /\ \E t \in AccumulatedTexts :
         \E i \in 0..(Len(t) - 1), j \in 0..(Len(t) - 1) :
            /\ Structural(DeltaAfter(t, i))
            /\ Structural(DeltaAfter(t, j))
            /\ arg = [fn |-> "repair", text |-> t, first |-> i, second |-> j]
    /\ ret = NoCall
    /\ frames = NoFrames

CallRepair ==
    /\ arg.fn = "repair"
    /\ ret = NoCall
    /\ ret' = [fn |-> "repair",
               first |-> RepairParse(SubSeq(arg.text, 1, arg.first),
                                     DeltaAfter(arg.text, arg.first)),
               second |-> RepairParse(SubSeq(arg.text, 1, arg.second),
                                      DeltaAfter(arg.text, arg.second))]
    /\ UNCHANGED <<arg, frames>>
    /\ UNCHANGED requestVars

NextRepair == CallRepair

SpecRepair == InitRepair /\ [][NextRepair]_vars

(***************************************************************************)
(* Two requests served at the same time.  Each request is one call of      *)
(* get_response_stream, whose locals make up its frame; the records its    *)
(* model invocations deliver are fixed when the request starts, and the    *)
(* steps of the two generators interleave freely.                          *)
(***************************************************************************)
Requests == {"r1", "r2"}

DeltaRecord(content) == [done |-> FALSE, content |-> content]

DoneMessage == [done |-> TRUE, content |-> <<>>]

\* the records of one model invocation
Invocations ==
    { <<DeltaRecord(ResultsOpen \o <<"{">> \o KeyA \o <<":", "1", "}">>),
        DeltaRecord(<<",", "2", "]", "}">>),
        DoneMessage>>,
      <<DeltaRecord(ResultsOpen \o <<"3", "]">>),
        DeltaRecord(<<"}">>),
        DoneMessage>> }

RECURSIVE StreamsOf(_)
\* the records of n invocations in a row
StreamsOf(n) ==
    IF n = 1 THEN Invocations
    ELSE {s \o i : s \in StreamsOf(n - 1), i \in Invocations}

Streams == UNION {StreamsOf(n) : n \in 1..MaxChunks}

\* lines 75-78 when the generator starts
NewFrame(stream) ==
    [stream |-> stream, pos |-> 0, pc |-> "loop", results |-> <<>>,
     buffer |-> <<>>, last_parsed_content |-> <<>>, content |-> <<>>,
     lines |-> <<>>]

\* locals read from whichever frame comes first
LocalsShared(fs, r) ==
    [results |-> fs[CHOOSE q \in DOMAIN fs : TRUE].results,
     buffer |-> fs[CHOOSE q \in DOMAIN fs : TRUE].buffer,
     last_parsed_content |-> fs[CHOOSE q \in DOMAIN fs : TRUE].last_parsed_content]

\* lines 75-78: results, buffer and last_parsed_content are locals of the call
Locals(fs, r) ==
    [results |-> fs[r].results,
     buffer |-> fs[r].buffer,
     last_parsed_content |-> fs[r].last_parsed_content]

InitConcurrent ==
    /\ NoRequest
    /\ arg = NoCall
    /\ ret = NoCall
    /\ frames \in [Requests -> {NewFrame(s) : s \in Streams}]

\* lines 76-88: the generator of r calls ollama.chat for its next chunk
ServeOpen(r) ==
    /\ frames[r].pc = "loop"
    /\ frames[r].pos < Len(frames[r].stream)
    /\ frames' = [frames EXCEPT ![r] =
                    [@ EXCEPT !.pc = "streaming", !.buffer = <<>>,
                              !.last_parsed_content = <<>>]]
    /\ UNCHANGED <<arg, ret>>
    /\ UNCHANGED requestVars

\* lines 89, 97-114: the generator of r receives a record with done = False
ServeDelta(r) ==
    /\ frames[r].pc = "streaming"
    /\ ~frames[r].stream[frames[r].pos + 1].done
    /\ \E l \in {Locals(frames, r)} :
       \E h \in {HandleDelta(l.buffer, l.last_parsed_content, l.results,
                              frames[r].stream[frames[r].pos + 1].content)} :
          frames' = [frames EXCEPT ![r] =
                       [@ EXCEPT !.pos = @ + 1,
                                 !.content = frames[r].stream[frames[r].pos + 1].content,
                                 !.buffer = h.buffer,
                                 !.last_parsed_content = h.last,
                                 !.lines = IF h.outcome = "emit"
                                           THEN Append(@, h.line) ELSE @,
                                 !.pc = IF h.outcome = "raise" THEN "aborted"
                                        ELSE IF h.outcome = "emit" THEN "yielded"
                                        ELSE "streaming"]]
    /\ UNCHANGED <<arg, ret>>
    /\ UNCHANGED requestVars

\* line 109: the generator of r goes on after the yield of line 108
ServeResume(r) ==
    /\ frames[r].pc = "yielded"
    /\ \E l \in {Locals(frames, r)} :
          frames' = [frames EXCEPT ![r] =
                       [@ EXCEPT !.buffer = ResumeDelta(l.buffer, frames[r].content),
                                 !.pc = "streaming"]]
    /\ UNCHANGED <<arg, ret>>
    /\ UNCHANGED requestVars

\* line 108: the consumer of r closes its generator while it holds a line
ServeDisconnect(r) ==
    /\ frames[r].pc = "yielded"
    /\ frames' = [frames EXCEPT ![r] = [@ EXCEPT !.pc = "disconnected"]]
    /\ UNCHANGED <<arg, ret>>
    /\ UNCHANGED requestVars

\* lines 89-95: the generator of r receives the record with done = True
ServeDone(r) ==
    /\ frames[r].pc = "streaming"
    /\ frames[r].stream[frames[r].pos + 1].done
    /\ \E l \in {Locals(frames, r)} :
       \E h \in {HandleDone(l.buffer, l.last_parsed_content, l.results,
                             frames[r].stream[frames[r].pos + 1].content)} :
          frames' = [frames EXCEPT ![r] =
                       [@ EXCEPT !.pos = @ + 1,
                                 !.results = h.final.results,
                                 !.buffer = h.buffer,
                                 !.last_parsed_content = h.last,
                                 !.pc = IF h.final.raised
                                        THEN "aborted" ELSE "loop"]]
    /\ UNCHANGED <<arg, ret>>
    /\ UNCHANGED requestVars

\* the loop of line 76 of the generator of r is exhausted
ServeClose(r) ==
    /\ frames[r].pc = "loop"
    /\ frames[r].pos = Len(frames[r].stream)
    /\ frames' = [frames EXCEPT ![r] = [@ EXCEPT !.pc = "closed"]]
    /\ UNCHANGED <<arg, ret>>
    /\ UNCHANGED requestVars

NextConcurrent ==
    \E r \in Requests :
        \/ ServeOpen(r)
        \/ ServeDelta(r)
        \/ ServeResume(r)
        \/ ServeDisconnect(r)
        \/ ServeDone(r)
        \/ ServeClose(r)

SpecConcurrent == InitConcurrent /\ [][NextConcurrent]_vars

(***************************************************************************)
(* Vocabulary of the properties.                                           *)
(***************************************************************************)
\* list a is a prefix of list b
IsPrefix(a, b) == Len(a) <= Len(b) /\ SubSeq(b, 1, Len(a)) = a

\* a decoded object with a "results" list
HasResultsList(v) ==
    /\ v.ok
    /\ v.kind = "obj"
    /\ HasKey(v.members, KeyResults)
    /\ GetMember(v.members, KeyResults).kind = "arr"

\* t is a JSON object of shape {"results": [...]}
IsResultsObject(t) == HasResultsList(Loads(t)) /\ Len(Loads(t).members) = 1

ResultsOf(t) == GetMember(Loads(t).members, KeyResults).elems

RECURSIVE Flatten(_)
Flatten(lists) ==
    IF lists = <<>> THEN <<>> ELSE lists[1] \o Flatten(Tail(lists))

\* the deltas delivered so far by the open invocation, concatenated
Delivered == SubSeq(text, 1, Len(text) - Len(rest))

EmptyMessage == ~data.present \/ data.message = <<>>

\* the positions where a word of s begins
WordStarts(s) ==
    {i \in 1..Len(s) : s[i] \notin Whitespace /\ (i = 1 \/ s[i - 1] \in Whitespace)}

WordCount(s) == Cardinality(WordStarts(s))

\* position i of s stays when whitespace is normalized: a word character, or
\* the first blank after a word that is followed by another word
Stays(s, i) ==
    \/ s[i] \notin Whitespace
    \/ /\ i > 1
       /\ s[i - 1] \notin Whitespace
       /\ \E j \in (i + 1)..Len(s) : s[j] \notin Whitespace

RECURSIVE NormalizedFrom(_, _)
NormalizedFrom(s, i) ==
    IF i > Len(s) THEN <<>>
    ELSE (IF Stays(s, i) THEN <<s[i]>> ELSE <<>>) \o NormalizedFrom(s, i + 1)

\* s with leading and trailing whitespace removed and every run of
\* whitespace replaced by one blank
Normalized(s) == NormalizedFrom(s, 1)

\* s up to and including the last occurrence of c
UpToLast(s, c) ==
    SubSeq(s, 1, CHOOSE i \in {k \in 1..Len(s) : s[k] = c} :
                    \A j \in {k \in 1..Len(s) : s[k] = c} : j <= i)

\* the accumulated text of a call, cut after the bracket the delta selects
Truncated(t, n) ==
    IF Contains(DeltaAfter(t, n), "]") THEN UpToLast(t, "]") ELSE UpToLast(t, "}")

\* the closers the code puts after the truncated text
FixedClosers(t, n) ==
    IF Contains(DeltaAfter(t, n), "]") THEN <<"}">> ELSE <<"]", "}">>

ClosingTokens == UNION {[1..n -> {"]", "}"}] : n \in 0..3}

\* t becomes an object of shape {"results": [...]} by closing tokens alone
Completable(t) == \E closers \in ClosingTokens : IsResultsObject(t \o closers)

\* a request on its own before any record has arrived
AloneStart == [results |-> <<>>, buffer |-> <<>>, last |-> <<>>,
               lines |-> <<>>, dead |-> FALSE]

\* a request on its own takes one more record
AloneStep(prev, h, f, rec) ==
    IF prev.dead THEN prev
    ELSE IF rec.done
    THEN [results |-> f.results, buffer |-> <<>>, last |-> <<>>,
          lines |-> prev.lines, dead |-> f.raised]
    ELSE [results |-> prev.results,
          buffer |-> IF h.outcome = "emit"
                     THEN ResumeDelta(h.buffer, rec.content) ELSE h.buffer,
          last |-> h.last,
          lines |-> IF h.outcome = "emit" THEN Append(prev.lines, h.line)
                    ELSE prev.lines,
          dead |-> h.outcome = "raise"]

AloneAfter(prev, rec) ==
    AloneStep(prev, HandleDelta(prev.buffer, prev.last, prev.results, rec.content),
              Finalize(prev.results, prev.last), rec)

RECURSIVE RunAlone(_, _)
\* a request on its own after the first n records of its stream
RunAlone(stream, n) ==
    IF n = 0 THEN AloneStart ELSE AloneAfter(RunAlone(stream, n - 1), stream[n])

\* the least k with k * w >= n
CeilDiv(n, w) == CHOOSE k \in 0..n : k * w >= n /\ (k = 0 \/ (k - 1) * w < n)

(***************************************************************************)
(* Properties.                                                             *)
(***************************************************************************)

\* C1: whenever a line is yielded, the result list of the line yielded
\* before it in the same request is a prefix of its result list.
Monotonicity ==
    [][(step'.kind = "emit" /\ lastSnap.some)
         => IsPrefix(lastSnap.results, lastSnap'.results)]_vars

\* C2: when the done record of an invocation arrives and the delivered text
\* is a JSON object of shape {"results": [...]}, a line was yielded for the
\* invocation and the chunk part of the last one is the result list of the
\* delivered text.
Completeness ==
    (step.kind = "done" /\ IsResultsObject(text))
        => (chunkSnap.some /\ chunkSnap.results = ResultsOf(text))

\* C3: last_parsed_content is empty or decodes as JSON, and the list a chunk
\* finalizes at its done record is the chunk part of the last line yielded
\* for it (empty when none was yielded).
LastValidSnapshot ==
    /\ last_parsed_content = <<>> \/ Loads(last_parsed_content).ok
    /\ step.kind = "done"
         => contrib[Len(contrib)] = (IF chunkSnap.some THEN chunkSnap.results ELSE <<>>)

\* C4: while an invocation streams, the buffer is the concatenation of all
\* deltas delivered so far, and a delta whose repaired text does not decode
\* yields no line.
BufferAccumulates ==
    /\ pc = "streaming" => buffer = Delivered
    /\ step.kind = "skip" => step.line = <<>>

\* C5: the running total only grows at its end, and it is the concatenation,
\* in chunk order, of the lists the ended chunks finalized.
AccumulatorOrdering ==
    [][IsPrefix(results, results') /\ results' = Flatten(contrib')]_vars

AccumulatorOrderingWitness ==
    /\ pc = "closed"
    /\ Len(contrib) = 2
    /\ contrib[1] # <<>>
    /\ contrib[2] # <<>>
    /\ contrib[1] # contrib[2]

\* C6: invocations are opened in chunk order, each with the text of its
\* chunk, and every invocation but the latest has consumed its done record.
SequentialChunks ==
    /\ Len(calls) <= Len(prompt_chunks)
    /\ \A i \in 1..Len(calls) :
         /\ calls[i].prompt = prompt_chunks[i]
         /\ i < Len(calls) => calls[i].state = "done"
    /\ Len(contrib) = done_chunks
    /\ Len(calls) = done_chunks
                      + (IF pc \in {"streaming", "yielded", "disconnected", "aborted"}
                         THEN 1 ELSE 0)

SequentialChunksWitness ==
    /\ Len(calls) = 2
    /\ calls[2].state = "open"
    /\ rest # text

\* C7: a request with an empty or missing message is answered with status
\* 400 and the error "No message provided"; no invocation is made and no
\* line is yielded.
InputRejection ==
    (pc # "idle" /\ EmptyMessage)
        => /\ pc = "rejected"
           /\ response = [status |-> BadRequest, error |-> "No message provided"]
           /\ calls = <<>>
           /\ ~lastSnap.some
           /\ step = NoStep

InputRejectionWitness ==
    /\ pc = "rejected"
    /\ endpoint = "abstract"
    /\ data.present
    /\ data.message = <<>>

\* C8: a line is yielded for a delta only when the repaired text of that
\* delta decodes, and the line decodes to an object with a "results" list.
WellFormedSnapshots ==
    /\ step.kind = "emit"
         => Loads(step.json_str).ok /\ HasResultsList(Loads(step.line))
    /\ step.kind # "emit" => step.line = <<>>

WellFormedSnapshotsWitness ==
    /\ step.kind = "emit"
    /\ results # <<>>
    /\ chunkSnap.results # <<>>

\* C9: no delta stream makes the generator end with an exception.
NoErrorState == pc # "aborted"

\* C10: when the done record arrives and last_parsed_content does not
\* decode, the running total is unchanged, the chunk finalizes the empty
\* list, nothing is raised and the loop goes on.
TerminalParseFailure ==
    [][(pc = "streaming" /\ step'.kind = "done" /\ ~Loads(last_parsed_content).ok)
         => /\ results' = results
            /\ contrib' = Append(contrib, <<>>)
            /\ pc' = "loop"
            /\ done_chunks' = done_chunks + 1
            /\ done_chunks' <= Len(prompt_chunks)
            /\ response' = response]_vars

TerminalParseFailureWitness ==
    /\ step.kind = "done"
    /\ pc = "loop"
    /\ last_parsed_content # <<>>
    /\ ~Loads(last_parsed_content).ok
    /\ results # <<>>

\* C11: split_into_chunks returns segments of at most chunk_size words, all
\* but the last of exactly chunk_size words, ceil(wordCount / chunk_size) of
\* them, whose concatenation with single blanks is the whitespace-normalized
\* input.
ChunkerContract ==
    ret.fn = "split_into_chunks"
        => /\ \A c \in 1..Len(ret.out) :
                /\ WordCount(ret.out[c]) >= 1
                /\ WordCount(ret.out[c]) <= arg.chunk_size
                /\ c < Len(ret.out) => WordCount(ret.out[c]) = arg.chunk_size
           /\ Join(ret.out, <<" ">>) = Normalized(arg.input_text)
           /\ Len(ret.out) = CeilDiv(WordCount(arg.input_text), arg.chunk_size)

ChunkerContractWitness ==
    /\ ret.fn = "split_into_chunks"
    /\ arg.chunk_size = 2
    /\ Len(ret.out) = 2
    /\ WordCount(ret.out[2]) = 1
    /\ Normalized(arg.input_text) # arg.input_text

\* C12: a request to /abstract that is not rejected has the whole message
\* as its only chunk, makes one invocation with that text, and every line
\* it yields carries the list decoded from the repaired text alone, the
\* running total being empty while the invocation streams.
AbstractDegenerate ==
    (endpoint = "abstract"
     /\ pc \in {"loop", "streaming", "yielded", "disconnected", "closed", "aborted"})
        => /\ prompt_chunks = <<data.message>>
           /\ Len(calls) <= 1
           /\ \A i \in 1..Len(calls) : calls[i].prompt = data.message
           /\ (pc # "loop" \/ done_chunks = 1) => Len(calls) = 1
           /\ pc \in {"streaming", "yielded"} => results = <<>>
           /\ step.kind = "emit" => ResultsOf(step.line) = ResultsOf(step.json_str)

AbstractDegenerateWitness ==
    /\ endpoint = "abstract"
    /\ data.message = <<" ", "w", " ", " ", "w">>
    /\ step.kind = "emit"
    /\ ResultsOf(step.line) # <<>>

\* C16: the result list of a yielded line is the running total followed by
\* the list decoded from the repaired text of the delta.
SnapshotComposition ==
    step.kind = "emit"
        => ResultsOf(step.line) = results \o ResultsOf(step.json_str)

SnapshotCompositionWitness ==
    /\ step.kind = "emit"
    /\ Len(results) >= 1
    /\ Len(ResultsOf(step.json_str)) = 2
    /\ results # ResultsOf(step.json_str)

\* C17: the running total changes only when a done record is consumed, then
\* only by growing at its end, and each change ends one chunk.
RunningTotalFrame ==
    [][results' # results
         => /\ pc = "streaming"
            /\ step'.kind = "done"
            /\ IsPrefix(results, results')
            /\ done_chunks' = done_chunks + 1]_vars

RunningTotalFrameWitness ==
    /\ step.kind = "done"
    /\ pc = "loop"
    /\ done_chunks = 2
    /\ contrib[1] # <<>>
    /\ contrib[2] # <<>>
    /\ Len(results) > Len(contrib[1])

\* C18: a delta that holds neither "]" nor "}" is appended to the buffer,
\* yields no line and leaves last_parsed_content, the running total and the
\* last yielded line as they were.
NonStructuralDelta ==
    [][(pc = "streaming" /\ rest' # rest
        /\ ~Contains(step'.content, "]") /\ ~Contains(step'.content, "}"))
         => /\ step'.kind = "plain"
            /\ buffer' = buffer \o step'.content
            /\ step'.line = <<>>
            /\ last_parsed_content' = last_parsed_content
            /\ results' = results
            /\ lastSnap' = lastSnap
            /\ pc' = "streaming"]_vars

NonStructuralDeltaWitness ==
    /\ step.kind = "plain"
    /\ buffer # step.content
    /\ last_parsed_content # <<>>
    /\ Loads(last_parsed_content).ok

\* C20: a /detect request with a non-empty message is accepted; when its
\* stream has ended it has made ceil(wordCount / 100) invocations, none and
\* no line for a message of whitespace only; an ended /abstract stream has
\* made one invocation.
InvocationCount ==
    /\ (endpoint = "detect" /\ pc # "idle" /\ ~EmptyMessage)
         => response = [status |-> Ok, error |-> ""]
    /\ (endpoint = "detect" /\ pc \in {"closed", "aborted"})
         => /\ Len(calls) = CeilDiv(WordCount(data.message), ChunkSize)
            /\ WordCount(data.message) = 0 => ~lastSnap.some
    /\ (endpoint = "abstract" /\ pc \in {"closed", "aborted"}) => Len(calls) = 1

\* C19: the record that carries the done signal leaves the buffer,
\* last_parsed_content and the yielded lines as they were, whatever its
\* content, and the list the chunk finalizes is the one decoded from
\* last_parsed_content as it was before the record.
DoneContentIgnored ==
    [][(pc = "streaming" /\ step'.kind = "done")
         => /\ buffer' = buffer
            /\ last_parsed_content' = last_parsed_content
            /\ step'.line = <<>>
            /\ lastSnap' = lastSnap
            /\ chunkSnap' = chunkSnap
            /\ pc' = "loop"
                 => contrib'[Len(contrib')] =
                      (IF HasResultsList(Loads(last_parsed_content))
                       THEN ResultsOf(last_parsed_content) ELSE <<>>)]_vars

DoneContentIgnoredWitness ==
    /\ step.kind = "done"
    /\ step.content # <<>>
    /\ contrib # <<>>
    /\ contrib[Len(contrib)] # <<>>

\* C14 as claimed: the repaired text and whether it decodes are the same
\* for any two divisions of one accumulated text into buffer and delta.
RepairOfTextAlone == ret.fn = "repair" => ret.first = ret.second

\* C14 as amended: the repaired text and whether it decodes are the same
\* for two divisions of one accumulated text when both deltas hold "]" or
\* neither does.
RepairOfTextAndBranch ==
    (ret.fn = "repair"
     /\ (Contains(DeltaAfter(arg.text, arg.first), "]")
           <=> Contains(DeltaAfter(arg.text, arg.second), "]")))
        => ret.first = ret.second

RepairOfTextAndBranchWitness ==
    /\ ret.fn = "repair"
    /\ arg.first # arg.second
    /\ Contains(DeltaAfter(arg.text, arg.first), "]")
    /\ Contains(DeltaAfter(arg.text, arg.second), "]")
    /\ ret.first.ok
    /\ ret.second.ok

\* C15 as claimed: whenever the truncated text becomes an object of shape
\* {"results": [...]} by closing tokens alone, the repaired text decodes.
RepairMinimalClosers ==
    (ret.fn = "repair" /\ Completable(Truncated(arg.text, arg.first)))
        => ret.first.ok

\* C15 as amended: the repaired text is the accumulated text cut after the
\* last "]" and followed by "}" when the delta holds "]", cut after the last
\* "}" and followed by "]}" otherwise, and it decodes whenever that text is
\* an object of shape {"results": [...]}.
RepairFixedClosers ==
    ret.fn = "repair"
        => /\ ret.first.json_str =
                Truncated(arg.text, arg.first) \o FixedClosers(arg.text, arg.first)
           /\ IsResultsObject(Truncated(arg.text, arg.first)
                                \o FixedClosers(arg.text, arg.first))
                => ret.first.ok

RepairFixedClosersWitness ==
    /\ ret.fn = "repair"
    /\ arg.first > 0
    /\ ~Contains(DeltaAfter(arg.text, arg.first), "]")
    /\ ret.first.ok
    /\ ret.first.json_str # arg.text

\* C13: whatever the interleaving of two requests, each has emitted the
\* lines, and holds the running total, that it has when it takes the same
\* records with no other request being served.
RequestIsolation ==
    \A r \in DOMAIN frames :
        /\ frames[r].lines = RunAlone(frames[r].stream, frames[r].pos).lines
        /\ frames[r].results = RunAlone(frames[r].stream, frames[r].pos).results

RequestIsolationWitness ==
    /\ DOMAIN frames = Requests
    /\ \A r \in Requests :
          /\ frames[r].pc = "streaming"
          /\ frames[r].lines # <<>>
    /\ frames["r1"].buffer # frames["r2"].buffer
    /\ frames["r1"].results # frames["r2"].results

====
